---- MODULE Spec2Model ----
(***************************************************************************)
(* Frequent batch auction: the batch-clearing core of src/src/auction.rs   *)
(* (sort, curve builder, curve intersector, allocator, batch driver) and   *)
(* the command pipeline of src/src/main.rs (socket -> channel -> book      *)
(* updater, periodic auction).                                             *)
(*                                                                         *)
(* Prices are exact decimals in the program.  Here a price is an integer   *)
(* number of HALF ticks: every order price is an even number, so that the  *)
(* exact BigDecimal division by 2 of a sum of two order prices is the      *)
(* exact integer division of the model (an odd value is a price that lies  *)
(* strictly between two ticks, such as 2.5 between 2 and 3).               *)
(***************************************************************************)
EXTENDS Integers, Sequences, FiniteSets, TLC

\* ---- bounds of the model ------------------------------------------------
MaxBids == 3
MaxAsks == 2
MaxTicks == 3
MaxQty == 2
MaxBatches == 2
MaxQueue == 1
MaxResting == 1
\* Qty is u32 in the program; the model keeps QtyBits bits of it, because the
\* checker's integers are narrower than 2^32: one unit of qty in the model
\* stands for 2^(32 - QtyBits) units of the program wherever a sum wraps
QtyBits == 4

VARIABLES
    bids,           \* DoubleSidedBook.bids / calculate_batch's bids
    asks,           \* DoubleSidedBook.asks / calculate_batch's asks
    report,         \* the BatchReport of the last batch
    sorted_bids,    \* bids as left by the sort of the last batch
    sorted_asks,    \* asks as left by the sort of the last batch
    demand,         \* demand curve of the last batch
    supply,         \* supply curve of the last batch
    sweep,          \* final locals of the last intersect_demand_supply
    batches,        \* number of calculate_batch invocations so far
    rx,             \* the unbounded command channel
    tick_pc,        \* where the periodic task stands in its loop
    bid_lock,       \* holder of DoubleSidedBook.bids' mutex
    ask_lock,       \* holder of DoubleSidedBook.asks' mutex
    tasks,          \* spawned printing tasks that have not run yet
    stdout          \* the lines printed so far

vars == <<bids, asks, report, sorted_bids, sorted_asks, demand, supply,
          sweep, batches, rx, tick_pc, bid_lock, ask_lock, tasks, stdout>>

core_vars == <<bids, asks, report, sorted_bids, sorted_asks, demand, supply,
               sweep, batches>>

main_vars == <<rx, tick_pc, bid_lock, ask_lock, tasks, stdout>>

\* ---- values ---------------------------------------------------------------
Prices == {2 * t : t \in 1..MaxTicks}

Qtys == 1..MaxQty

Order_new(price, qty) ==
    [qty |-> qty, price |-> price, batches_out |-> 0, cleared |-> FALSE]

Segment(price, q_max) == [price |-> price, q_max |-> q_max]

NoTrade == [tag |-> "NoTrade"]

\* the call did not return: the thread unwound from a panic
Panic == [tag |-> "Panic"]

Trade_Swapped(price, qty, cleared_bids, cleared_asks) ==
    [tag |-> "Trade", price |-> price, qty |-> qty,
     cleared_bids |-> cleared_asks, cleared_asks |-> cleared_bids]

Trade(price, qty, cleared_bids, cleared_asks) ==
    [tag |-> "Trade", price |-> price, qty |-> qty,
     cleared_bids |-> cleared_bids, cleared_asks |-> cleared_asks]

\* ---- std helpers ------------------------------------------------------------
Ord_cmp(a, b) == IF a < b THEN "Less" ELSE IF a = b THEN "Equal" ELSE "Greater"

Ord_reverse(o) ==
    IF o = "Less" THEN "Greater" ELSE IF o = "Greater" THEN "Less" ELSE "Equal"

min(a, b) == IF a <= b THEN a ELSE b

Bijections(n) == {f \in [1..n -> 1..n] : \A i, j \in 1..n : f[i] = f[j] => i = j}

Permutations_of(seq) ==
    {[i \in 1..Len(seq) |-> seq[f[i]]] : f \in Bijections(Len(seq))}

\* ---- order priority (the two sort closures) -----------------------------------
BidCmp_NoReverse(order, other) ==
    IF Ord_cmp(order.price, other.price) = "Equal"
    THEN Ord_reverse(Ord_cmp(order.batches_out, other.batches_out))
    ELSE Ord_cmp(order.price, other.price)

BidCmp(order, other) ==
    IF Ord_cmp(order.price, other.price) = "Equal"
    THEN Ord_reverse(Ord_cmp(order.batches_out, other.batches_out))
    ELSE Ord_reverse(Ord_cmp(order.price, other.price))

AskCmp_Reverse(order, other) ==
    IF Ord_cmp(order.price, other.price) = "Equal"
    THEN Ord_reverse(Ord_cmp(order.batches_out, other.batches_out))
    ELSE Ord_reverse(Ord_cmp(order.price, other.price))

AskCmp(order, other) ==
    IF Ord_cmp(order.price, other.price) = "Equal"
    THEN Ord_reverse(Ord_cmp(order.batches_out, other.batches_out))
    ELSE Ord_cmp(order.price, other.price)

SegmentCmp_Reverse(s1, s2) == Ord_cmp(s2.q_max, s1.q_max)

SegmentCmp(s1, s2) == Ord_cmp(s1.q_max, s2.q_max)

SortedBids_None(orders) == {orders}

\* sort_unstable_by: the result is a permutation of the input that is ordered
\* by the comparator; the order of elements that compare Equal is unspecified.
SortedBids(orders) ==
    {s \in Permutations_of(orders) :
        \A i, j \in 1..Len(s) : i < j => BidCmp(s[i], s[j]) # "Greater"}

SortedAsks(orders) ==
    {s \in Permutations_of(orders) :
        \A i, j \in 1..Len(s) : i < j => AskCmp(s[i], s[j]) # "Greater"}

\* ---- curve builder ------------------------------------------------------------
RECURSIVE SumQty(_)
SumQty(orders) ==
    IF orders = <<>> THEN 0 ELSE orders[1].qty + SumQty(Tail(orders))

QtyModulus == 2 ^ QtyBits

\* max_q += order.qty leaves the range of Qty somewhere in the loop
Overflows(orders) == SumQty(orders) >= QtyModulus

\* max_q after the first k orders, as the wrapping addition leaves it
MaxQ(orders, k) == SumQty(SubSeq(orders, 1, k)) % QtyModulus

\* the HashMap after the loop: a later insert at a price replaces the earlier
SegmentMap(orders) ==
    LET keys == {orders[k].price : k \in 1..Len(orders)}
        last(p) == CHOOSE k \in 1..Len(orders) :
                     /\ orders[k].price = p
                     /\ \A m \in 1..Len(orders) : orders[m].price = p => m <= k
    IN  [p \in keys |-> MaxQ(orders, last(p))]

\* the map's entries in an arbitrary iteration order, then sorted by q_max
orders_to_curve_segments(orders) ==
    LET map == SegmentMap(orders)
        entries == {Segment(p, map[p]) : p \in DOMAIN map}
        n == Cardinality(entries)
    IN  {s \in [1..n -> entries] :
            /\ \A e \in entries : \E i \in 1..n : s[i] = e
            /\ \A i, j \in 1..n : i < j => SegmentCmp(s[i], s[j]) # "Greater"}

\* ---- curve intersector ----------------------------------------------------------
QStarEdge_Max(seg_demand, seg_supply) ==
    IF seg_demand.q_max >= seg_supply.q_max
    THEN seg_demand.q_max ELSE seg_supply.q_max

QStarEdge(seg_demand, seg_supply) == min(seg_demand.q_max, seg_supply.q_max)

Crossed_OrEqual(seg_demand, seg_supply) == seg_supply.price >= seg_demand.price

Crossed(seg_demand, seg_supply) == seg_supply.price > seg_demand.price

MoveAlongDemand(seg_demand, seg_supply) == seg_demand.q_max < seg_supply.q_max

PStar_Demand(seg_demand, seg_supply) == seg_demand.price

PStar(seg_demand, seg_supply) == (seg_demand.price + seg_supply.price) \div 2

\* on equal q_max both candidate indices move
RECURSIVE SweepLoop_BothOnTie(_, _, _)
SweepLoop_BothOnTie(D, S, l) ==
    IF ~(l.idx_next_demand < Len(D) /\ l.idx_next_supply < Len(S))
    THEN l
    ELSE LET seg_demand == D[l.idx_next_demand + 1]
             seg_supply == S[l.idx_next_supply + 1]
         IN  IF Crossed(seg_demand, seg_supply)
             THEN l
             ELSE SweepLoop_BothOnTie(D, S,
                    [idx_demand |-> l.idx_next_demand,
                     idx_supply |-> l.idx_next_supply,
                     idx_next_demand |->
                        IF seg_demand.q_max <= seg_supply.q_max
                        THEN l.idx_next_demand + 1 ELSE l.idx_next_demand,
                     idx_next_supply |->
                        IF seg_demand.q_max >= seg_supply.q_max
                        THEN l.idx_next_supply + 1 ELSE l.idx_next_supply,
                     q_star |-> QStarEdge(seg_demand, seg_supply),
                     iterations |-> l.iterations + 1])

RECURSIVE SweepLoop(_, _, _)
SweepLoop(D, S, l) ==
    IF ~(l.idx_next_demand < Len(D) /\ l.idx_next_supply < Len(S))
    THEN l
    ELSE LET seg_demand == D[l.idx_next_demand + 1]
             seg_supply == S[l.idx_next_supply + 1]
         IN  IF Crossed(seg_demand, seg_supply)
             THEN l
             ELSE SweepLoop(D, S,
                    [idx_demand |-> l.idx_next_demand,
                     idx_supply |-> l.idx_next_supply,
                     idx_next_demand |->
                        IF MoveAlongDemand(seg_demand, seg_supply)
                        THEN l.idx_next_demand + 1 ELSE l.idx_next_demand,
                     idx_next_supply |->
                        IF MoveAlongDemand(seg_demand, seg_supply)
                        THEN l.idx_next_supply ELSE l.idx_next_supply + 1,
                     q_star |-> QStarEdge(seg_demand, seg_supply),
                     iterations |-> l.iterations + 1])

SweepStart ==
    [idx_demand |-> 0, idx_supply |-> 0, idx_next_demand |-> 0,
     idx_next_supply |-> 0, q_star |-> 0, iterations |-> 0]

NoCrossing_Never(D, S) == FALSE

NoCrossing_Reversed(D, S) == D[1].price > S[1].price

NoCrossing(D, S) == D[1].price < S[1].price

\* the locals at the return, with the returned Option in some / p_star / q_star
intersect_demand_supply(D, S) ==
    IF D = <<>> \/ S = <<>>
    THEN [some |-> FALSE, early |-> "empty"]
    ELSE IF NoCrossing(D, S)
    THEN [some |-> FALSE, early |-> "price"]
    ELSE LET l == SweepLoop(D, S, SweepStart)
         IN  [some |-> TRUE,
              idx_demand |-> l.idx_demand,
              idx_supply |-> l.idx_supply,
              idx_next_demand |-> l.idx_next_demand,
              idx_next_supply |-> l.idx_next_supply,
              iterations |-> l.iterations,
              p_star |-> PStar(D[l.idx_demand + 1], S[l.idx_supply + 1]),
              q_star |-> l.q_star]

\* ---- allocator ------------------------------------------------------------------
BidPredicate(bid_price, price) == bid_price >= price

AskPredicate(ask_price, price) == ask_price <= price

\* p_star is in half ticks like every price, so the comparison is exact
price_predicate(side, order_price, p_star) ==
    IF side = "bid" THEN BidPredicate(order_price, p_star)
    ELSE AskPredicate(order_price, p_star)

PartialFill_Keep(order, q_star) == order

PartialFill(order, q_star) == [order EXCEPT !.qty = order.qty - q_star]

FullyClear(order) == [order EXCEPT !.cleared = TRUE]

\* the for loop from position k on: the orders as mutated, and the snapshots
RECURSIVE ClearLoop(_, _, _, _, _, _)
ClearLoop(orders, k, p_star, q_star, side, cleared) ==
    IF k > Len(orders)
    THEN [orders |-> orders, cleared |-> cleared]
    ELSE IF price_predicate(side, orders[k].price, p_star)
    THEN IF orders[k].qty <= q_star
         THEN ClearLoop([orders EXCEPT ![k] = FullyClear(orders[k])], k + 1,
                        p_star, q_star - orders[k].qty, side,
                        Append(cleared, FullyClear(orders[k])))
         ELSE [orders |-> [orders EXCEPT ![k] = PartialFill(orders[k], q_star)],
               cleared |-> cleared]
    ELSE [orders |-> orders, cleared |-> cleared]

clear_orders(orders, p_star, q_star, side) ==
    ClearLoop(orders, 1, p_star, q_star, side, <<>>)

\* ---- batch driver -----------------------------------------------------------------
Retain_All(orders) == orders

RECURSIVE Retain_Inverted(_)
Retain_Inverted(orders) ==
    IF orders = <<>> THEN <<>>
    ELSE IF orders[1].cleared
    THEN <<orders[1]>> \o Retain_Inverted(Tail(orders))
    ELSE Retain_Inverted(Tail(orders))

RECURSIVE Retain(_)
Retain(orders) ==
    IF orders = <<>> THEN <<>>
    ELSE IF ~orders[1].cleared THEN <<orders[1]>> \o Retain(Tail(orders))
    ELSE Retain(Tail(orders))

\* the part of calculate_batch after the curves are built
BatchResult(sb, sa, D, S) ==
    LET r == intersect_demand_supply(D, S)
    IN  /\ demand' = D
        /\ supply' = S
        /\ sweep' = r
        /\ IF ~r.some
           THEN /\ bids' = sb
                /\ asks' = sa
                /\ report' = NoTrade
           ELSE LET cb == clear_orders(sb, r.p_star, r.q_star, "bid")
                    ca == clear_orders(sa, r.p_star, r.q_star, "ask")
                IN  /\ bids' = Retain(cb.orders)
                    /\ asks' = Retain(ca.orders)
                    /\ report' = Trade(r.p_star, r.q_star,
                                       cb.cleared, ca.cleared)

\* max_q += order.qty panicked (a build with overflow checks): the lists are
\* sorted, no report is returned
BatchPanic(sb, sa) ==
    /\ bids' = sb
    /\ asks' = sa
    /\ report' = Panic
    /\ UNCHANGED <<demand, supply, sweep>>

\* calculate_batch with the outcome of the two sorts and of the two curve
\* builders chosen among the results those calls can give; an overflowing
\* max_q panics or wraps, as the build has overflow checks or not
calculate_batch ==
    /\ batches < MaxBatches
    /\ report # Panic
    /\ batches' = batches + 1
    /\ \E sb \in SortedBids(bids), sa \in SortedAsks(asks) :
          /\ sorted_bids' = sb
          /\ sorted_asks' = sa
          /\ \/ /\ Overflows(sb) \/ Overflows(sa)
                /\ BatchPanic(sb, sa)
             \/ \E D \in orders_to_curve_segments(sb),
                   S \in orders_to_curve_segments(sa) :
                   BatchResult(sb, sa, D, S)

\* ---- the library under any book built from Order::new ----------------------------
Books(n) == UNION {[1..k -> {Order_new(p, q) : p \in Prices, q \in Qtys}] : k \in 0..n}

NoBatchYet ==
    /\ report = [tag |-> "None"]
    /\ sorted_bids = <<>>
    /\ sorted_asks = <<>>
    /\ demand = <<>>
    /\ supply = <<>>
    /\ sweep = [some |-> FALSE, early |-> "none"]
    /\ batches = 0

\* main has started: empty channel, the periodic task waits for its first
\* tick, nobody holds a lock, nothing is printed
MainStarted ==
    /\ rx = <<>>
    /\ tick_pc = "wait"
    /\ bid_lock = "free"
    /\ ask_lock = "free"
    /\ tasks = <<>>
    /\ stdout = <<>>

Init ==
    /\ bids \in Books(MaxBids)
    /\ asks \in Books(MaxAsks)
    /\ NoBatchYet
    /\ MainStarted

Next == calculate_batch /\ UNCHANGED main_vars

Spec == Init /\ [][Next]_vars

\* ---- the library under books whose quantities reach the top of Qty ---------------
WideQtys == {1, 2 ^ (QtyBits - 1), QtyModulus - 1}

WideBooks(n) ==
    UNION {[1..k -> {Order_new(p, q) : p \in Prices, q \in WideQtys}] : k \in 0..n}

InitWide ==
    /\ bids \in WideBooks(MaxAsks)
    /\ asks \in WideBooks(MaxAsks)
    /\ NoBatchYet
    /\ MainStarted

SpecWide == InitWide /\ [][Next]_vars

\* ---- the program of main.rs: socket -> channel -> book updater, periodic auction ----
Commands ==
    [command_type : {"Add", "Cancel"}, order_type : {"Buy", "Sell"},
     price : Prices, qty : Qtys]

\* a connection handler parses one line and sends the command
handle_socket(command) ==
    /\ Len(rx) < MaxQueue
    /\ rx' = Append(rx, command)
    /\ UNCHANGED <<core_vars, tick_pc, bid_lock, ask_lock, tasks, stdout>>

\* the book updater receives one command, builds the order, and matches on
\* the order type and the command type; every arm of the match is empty
update_order_book_Push ==
    /\ rx # <<>>
    /\ rx' = Tail(rx)
    /\ LET cmd == Head(rx)
           order == Order_new(cmd.price, cmd.qty)
       IN  IF cmd.command_type = "Add" /\ cmd.order_type = "Buy"
           THEN bids' = Append(bids, order) /\ asks' = asks
           ELSE UNCHANGED <<bids, asks>>
    /\ UNCHANGED <<report, sorted_bids, sorted_asks, demand, supply, sweep,
                   batches, tick_pc, bid_lock, ask_lock, tasks, stdout>>

update_order_book ==
    /\ rx # <<>>
    /\ rx' = Tail(rx)
    /\ LET cmd == Head(rx)
           order == Order_new(cmd.price, cmd.qty)
       IN  UNCHANGED <<bids, asks>>
    /\ UNCHANGED <<report, sorted_bids, sorted_asks, demand, supply, sweep,
                   batches, tick_pc, bid_lock, ask_lock, tasks, stdout>>

\* the periodic task: interval.tick().await returns
interval_tick ==
    /\ tick_pc = "wait"
    /\ batches < MaxBatches
    /\ tick_pc' = "lock_bids"
    /\ UNCHANGED <<core_vars, rx, bid_lock, ask_lock, tasks, stdout>>

\* run_auction, statement by statement
auction_lock_bids ==
    /\ tick_pc = "lock_bids"
    /\ bid_lock = "free"
    /\ bid_lock' = "tick"
    /\ tick_pc' = "lock_asks"
    /\ UNCHANGED <<core_vars, rx, ask_lock, tasks, stdout>>

auction_lock_asks ==
    /\ tick_pc = "lock_asks"
    /\ ask_lock = "free"
    /\ ask_lock' = "tick"
    /\ tick_pc' = "batch"
    /\ UNCHANGED <<core_vars, rx, bid_lock, tasks, stdout>>

auction_batch ==
    /\ tick_pc = "batch"
    /\ calculate_batch
    /\ tick_pc' = "drop_bids"
    /\ UNCHANGED <<rx, bid_lock, ask_lock, tasks, stdout>>

auction_drop_bids ==
    /\ tick_pc = "drop_bids"
    /\ bid_lock' = "free"
    /\ tick_pc' = "drop_asks"
    /\ UNCHANGED <<core_vars, rx, ask_lock, tasks, stdout>>

auction_drop_asks_Keep ==
    /\ tick_pc = "drop_asks"
    /\ tick_pc' = "spawn"
    /\ UNCHANGED <<core_vars, rx, bid_lock, ask_lock, tasks, stdout>>

auction_drop_asks ==
    /\ tick_pc = "drop_asks"
    /\ ask_lock' = "free"
    /\ tick_pc' = "spawn"
    /\ UNCHANGED <<core_vars, rx, bid_lock, tasks, stdout>>

\* tokio::spawn of the printing task, the report moved into it
auction_spawn ==
    /\ tick_pc = "spawn"
    /\ tasks' = Append(tasks, report)
    /\ tick_pc' = "wait"
    /\ UNCHANGED <<core_vars, rx, bid_lock, ask_lock, stdout>>

run_auction ==
    \/ auction_lock_bids
    \/ auction_lock_asks
    \/ auction_batch
    \/ auction_drop_bids
    \/ auction_drop_asks
    \/ auction_spawn

\* what the printing task writes for a report
Line(r) ==
    IF r.tag = "NoTrade" THEN [text |-> "No Trade"]
    ELSE [text |-> "Batch", bid |-> Len(r.cleared_bids),
          ask |-> Len(r.cleared_asks), price |-> r.price, qty |-> r.qty]

\* the runtime runs one of the spawned printing tasks
print_report ==
    \E i \in 1..Len(tasks) :
        /\ stdout' = Append(stdout, Line(tasks[i]))
        /\ tasks' = SubSeq(tasks, 1, i - 1) \o SubSeq(tasks, i + 1, Len(tasks))
        /\ UNCHANGED <<core_vars, rx, tick_pc, bid_lock, ask_lock>>

InitMain ==
    /\ bids = <<>>
    /\ asks = <<>>
    /\ NoBatchYet
    /\ MainStarted

NextMain ==
    \/ \E command \in Commands : handle_socket(command)
    \/ update_order_book
    \/ interval_tick
    \/ run_auction
    \/ print_report

SpecMain == InitMain /\ [][NextMain]_vars

\* every task the runtime holds is scheduled again and again; the periodic
\* task and the printing tasks have no step that waits on another task
SpecMainFair ==
    /\ SpecMain
    /\ WF_vars(interval_tick)
    /\ WF_vars(run_auction)
    /\ WF_vars(print_report)
    /\ WF_vars(update_order_book)

\* update_order_book handed a book that holds orders
InitBook ==
    /\ bids \in Books(MaxResting)
    /\ asks \in Books(MaxResting)
    /\ NoBatchYet
    /\ MainStarted

SpecBook == InitBook /\ [][NextMain]_vars

\* ---- properties -------------------------------------------------------------------
RECURSIVE MaxOf(_)
MaxOf(S) ==
    LET x == CHOOSE y \in S : TRUE
    IN  IF S = {x} THEN x
        ELSE LET m == MaxOf(S \ {x}) IN IF x >= m THEN x ELSE m

PricesOf(orders) == {orders[k].price : k \in 1..Len(orders)}

BestBid(orders) == MaxOf(PricesOf(orders))

BestAsk(orders) == -MaxOf({-p : p \in PricesOf(orders)})

BookCrossed(b, a) == b # <<>> /\ a # <<>> /\ BestBid(b) >= BestAsk(a)

\* quantity of the orders of a list whose index satisfies a condition
RECURSIVE SumOver(_, _)
SumOver(orders, idx) ==
    IF idx = {} THEN 0
    ELSE LET k == CHOOSE i \in idx : TRUE
         IN  orders[k].qty + SumOver(orders, idx \ {k})

Demanded(b, p) == SumOver(b, {k \in 1..Len(b) : b[k].price >= p})

Supplied(a, p) == SumOver(a, {k \in 1..Len(a) : a[k].price <= p})

\* the largest volume that can be matched at one price, over every half tick
MaxTradeable(b, a) ==
    MaxOf({min(Demanded(b, p), Supplied(a, p)) : p \in 0..(2 * MaxOf(PricesOf(b) \cup PricesOf(a)))})

IsTrade == report.tag = "Trade"

\* C1: for a book with both sides non-empty and highest bid >= lowest ask,
\* the batch reports a trade whose qty is the maximum over all prices p of
\* min(bid qty at price >= p, ask qty at price <= p).
C1_MaxVolume ==
    (batches > 0 /\ BookCrossed(sorted_bids, sorted_asks)) =>
        /\ IsTrade
        /\ report.qty = MaxTradeable(sorted_bids, sorted_asks)

C1_Witness ==
    /\ IsTrade
    /\ report.qty >= 2
    /\ report.qty < SumQty(sorted_bids)
    /\ report.qty < SumQty(sorted_asks)
    /\ Len(demand) >= 2
    /\ Len(supply) >= 2

\* the amount by which the orders left in the book were decremented: the
\* orders that stay are the sorted orders after the cleared ones
Decrement(sorted, cleared, left) ==
    SumOver([k \in 1..Len(left) |->
                [qty |-> sorted[k + Len(cleared)].qty - left[k].qty]],
            1..Len(left))

NumPartial(sorted, cleared, left) ==
    Cardinality({k \in 1..Len(left) : sorted[k + Len(cleared)].qty # left[k].qty})

\* C2: in every Trade batch, on each side the qty of the cleared orders plus
\* the decrement of the partially filled order equals the reported qty.
C2_VolumeConservation ==
    IsTrade =>
        /\ Len(report.cleared_bids) + Len(bids) = Len(sorted_bids)
        /\ Len(report.cleared_asks) + Len(asks) = Len(sorted_asks)
        /\ SumQty(report.cleared_bids)
             + Decrement(sorted_bids, report.cleared_bids, bids) = report.qty
        /\ SumQty(report.cleared_asks)
             + Decrement(sorted_asks, report.cleared_asks, asks) = report.qty
        /\ NumPartial(sorted_bids, report.cleared_bids, bids) <= 1
        /\ NumPartial(sorted_asks, report.cleared_asks, asks) <= 1

C2_Witness ==
    /\ IsTrade
    /\ report.cleared_bids # <<>>
    /\ Len(report.cleared_bids) + Len(bids) = Len(sorted_bids)
    /\ Decrement(sorted_bids, report.cleared_bids, bids) > 0
    /\ report.cleared_asks # <<>>

BidLeft_Above(p) == \E k \in 1..Len(bids) : bids[k].price > p

BidLeft_AtOrAbove(p) == \E k \in 1..Len(bids) : bids[k].price >= p

AskLeft_Below(p) == \E k \in 1..Len(asks) : asks[k].price < p

AskLeft_AtOrBelow(p) == \E k \in 1..Len(asks) : asks[k].price <= p

\* C3: after a Trade at p*, no bid above p* is left in the book while an ask
\* at or below p* is left, and no ask below p* is left while a bid at or
\* above p* is left (an order left in the book is not fully cleared).
C3_Priority ==
    IsTrade =>
        /\ ~(BidLeft_Above(report.price) /\ AskLeft_AtOrBelow(report.price))
        /\ ~(AskLeft_Below(report.price) /\ BidLeft_AtOrAbove(report.price))

C3_Witness ==
    /\ IsTrade
    /\ \E k \in 1..Len(bids) : bids[k].price > report.price
    /\ \E k \in 1..Len(asks) : asks[k].price > report.price
    /\ Decrement(sorted_bids, report.cleared_bids, bids) > 0

\* C4: in every Trade report each cleared bid has price >= the report price
\* and each cleared ask has price <= it; so has the order of each side whose
\* qty was reduced by a partial fill.
C4_PriceAdmissibility ==
    IsTrade =>
        /\ \A k \in 1..Len(report.cleared_bids) :
              report.cleared_bids[k].price >= report.price
        /\ \A k \in 1..Len(report.cleared_asks) :
              report.cleared_asks[k].price <= report.price
        /\ \A k \in 1..Len(bids) :
              (k + Len(report.cleared_bids) <= Len(sorted_bids)
               /\ bids[k].qty < sorted_bids[k + Len(report.cleared_bids)].qty)
                 => bids[k].price >= report.price
        /\ \A k \in 1..Len(asks) :
              (k + Len(report.cleared_asks) <= Len(sorted_asks)
               /\ asks[k].qty < sorted_asks[k + Len(report.cleared_asks)].qty)
                 => asks[k].price <= report.price

C4_Witness ==
    /\ IsTrade
    /\ \E k \in 1..Len(report.cleared_bids) :
          report.cleared_bids[k].price > report.price
    /\ \E k \in 1..Len(report.cleared_asks) :
          report.cleared_asks[k].price < report.price
    /\ asks # <<>>
    /\ asks[1].qty < sorted_asks[1 + Len(report.cleared_asks)].qty

\* C5: when the intersector returns Some((p*, q*)), 2 p* is the sum of the
\* prices of the last accepted demand and supply segments, p* lies between
\* them, equals them when they are equal, and q* is the smaller q_max.
C5_ClearingPrice ==
    sweep.some =>
        LET d == demand[sweep.idx_demand + 1]
            s == supply[sweep.idx_supply + 1]
        IN  /\ 2 * sweep.p_star = d.price + s.price
            /\ s.price <= sweep.p_star
            /\ sweep.p_star <= d.price
            /\ (d.price = s.price => sweep.p_star = d.price)
            /\ sweep.q_star = min(d.q_max, s.q_max)

C5_Witness ==
    /\ sweep.some
    /\ sweep.idx_demand >= 1
    /\ demand[sweep.idx_demand + 1].price > supply[sweep.idx_supply + 1].price
    /\ sweep.idx_next_demand < Len(demand)
    /\ sweep.idx_next_supply < Len(supply)

\* C6: an order admitted with seniority 0 that is still in the book after k
\* consecutive batches has batches_out = k (every order of the book was
\* admitted before the first batch).
C6_MonotoneSeniority ==
    /\ \A k \in 1..Len(bids) : bids[k].batches_out = batches
    /\ \A k \in 1..Len(asks) : asks[k].batches_out = batches

\* C8: for a priority-sorted side, the curve has one segment per distinct
\* price, in the price order of the side, with q_max the cumulative qty up
\* to and including the price level; q_max is strictly increasing, the last
\* one is the total qty, and an empty side gives an empty curve.
CurveOf(curve, orders, before(_, _)) ==
    /\ Len(curve) = Cardinality(PricesOf(orders))
    /\ \A i \in 1..Len(curve) : curve[i].price \in PricesOf(orders)
    /\ \A i, j \in 1..Len(curve) :
          i < j => /\ before(curve[i].price, curve[j].price)
                   /\ curve[i].q_max < curve[j].q_max
    /\ \A i \in 1..Len(curve) :
          curve[i].q_max =
            SumOver(orders, {k \in 1..Len(orders) :
                               \/ orders[k].price = curve[i].price
                               \/ before(orders[k].price, curve[i].price)})
    /\ (orders = <<>> => curve = <<>>)
    /\ (orders # <<>> => curve[Len(curve)].q_max = SumQty(orders))

HigherFirst(p, q) == p > q

LowerFirst(p, q) == p < q

C8_CurveBuilder ==
    batches > 0 =>
        /\ CurveOf(demand, sorted_bids, HigherFirst)
        /\ CurveOf(supply, sorted_asks, LowerFirst)

C8_Witness ==
    /\ batches > 0
    /\ Len(demand) = 2
    /\ Len(sorted_bids) = 3
    /\ sorted_bids[1].price = sorted_bids[2].price
    /\ Len(supply) = 2

\* C9: the intersector returns None and the batch returns NoTrade whenever
\* the bid side is empty, the ask side is empty, or the highest bid price
\* is strictly lower than the lowest ask price.
C9_NoTrade ==
    (batches > 0 /\ ~BookCrossed(sorted_bids, sorted_asks)) =>
        /\ ~sweep.some
        /\ report = NoTrade

C9_Witness ==
    /\ batches > 0
    /\ sorted_bids # <<>>
    /\ sorted_asks # <<>>
    /\ BestBid(sorted_bids) < BestAsk(sorted_asks)
    /\ report = NoTrade

\* C10: once the book updater has received an ADD command for a side, an
\* order with that price and qty and seniority 0 is on that side of the book.
C10_AddTakesEffect ==
    [][(rx # <<>> /\ rx' = Tail(rx) /\ Head(rx).command_type = "Add") =>
          LET cmd == Head(rx)
              side == IF cmd.order_type = "Buy" THEN bids' ELSE asks'
          IN  \E k \in 1..Len(side) : side[k] = Order_new(cmd.price, cmd.qty)]_vars

\* the order o has strictly higher priority than c on the side
HigherPriority(o, c, before(_, _)) ==
    \/ before(o.price, c.price)
    \/ o.price = c.price /\ o.batches_out > c.batches_out

SameOrder(a, b) ==
    a.price = b.price /\ a.qty = b.qty /\ a.batches_out = b.batches_out

PriorityPrefix(sorted, cleared, left, before(_, _)) ==
    /\ \A i, j \in 1..Len(sorted) :
          i < j => ~HigherPriority(sorted[j], sorted[i], before)
    /\ Len(cleared) + Len(left) = Len(sorted)
    /\ \A k \in 1..Len(cleared) : SameOrder(cleared[k], sorted[k])
    /\ \A k \in 1..Len(left) :
          /\ left[k].price = sorted[k + Len(cleared)].price
          /\ left[k].batches_out = sorted[k + Len(cleared)].batches_out
          /\ (k > 1 => left[k].qty = sorted[k + Len(cleared)].qty)
    /\ \A k \in 1..Len(cleared), m \in 1..Len(left) :
          ~HigherPriority(left[m], cleared[k], before)

\* C13: on each side the fully cleared orders are a prefix of the side's
\* priority order and are reported in that order; only the order right after
\* the prefix may have its qty reduced; no order is cleared while an order of
\* strictly higher priority is left in the book.
C13_PriceTimePriority ==
    IsTrade =>
        /\ PriorityPrefix(sorted_bids, report.cleared_bids, bids, HigherFirst)
        /\ PriorityPrefix(sorted_asks, report.cleared_asks, asks, LowerFirst)

C13_Witness ==
    /\ IsTrade
    /\ Len(report.cleared_bids) = 2
    /\ report.cleared_bids[1].price > report.cleared_bids[2].price
    /\ Len(bids) = 1
    /\ bids[1].qty < sorted_bids[3].qty

\* C14: every order in the book has qty > 0 and cleared = false; the orders
\* a batch marked cleared are gone from the book when it returns and are, by
\* value, the batch's cleared lists.
Resting(orders) ==
    \A k \in 1..Len(orders) : orders[k].qty > 0 /\ ~orders[k].cleared

ClearedReported(sorted, cleared, left) ==
    /\ Len(left) = Len(sorted) - Len(cleared)
    /\ \A k \in 1..Len(cleared) :
          cleared[k] = [sorted[k] EXCEPT !.cleared = TRUE]

C14_RestingOrders ==
    /\ Resting(bids)
    /\ Resting(asks)
    /\ IsTrade =>
          /\ ClearedReported(sorted_bids, report.cleared_bids, bids)
          /\ ClearedReported(sorted_asks, report.cleared_asks, asks)

C14_Witness ==
    /\ IsTrade
    /\ report.cleared_bids # <<>>
    /\ report.cleared_asks # <<>>
    /\ bids # <<>>
    /\ bids[1].qty < sorted_bids[1 + Len(report.cleared_bids)].qty

SameBag(a, b) ==
    /\ Len(a) = Len(b)
    /\ \A i \in 1..Len(a) :
          Cardinality({k \in 1..Len(a) : a[k] = a[i]})
            = Cardinality({k \in 1..Len(b) : b[k] = a[i]})

InPriorityOrder(orders, before(_, _)) ==
    \A i, j \in 1..Len(orders) :
        i < j => ~HigherPriority(orders[j], orders[i], before)

BatchStep == batches' = batches + 1

\* C18: a batch that returns NoTrade changes no order: each side holds the
\* same orders (price, qty, seniority, cleared) as before, as many times,
\* and is left in priority order.
C18_NoTradeFrame ==
    [][(BatchStep /\ report'.tag = "NoTrade") =>
          /\ SameBag(bids, bids')
          /\ SameBag(asks, asks')
          /\ InPriorityOrder(bids', HigherFirst)
          /\ InPriorityOrder(asks', LowerFirst)]_vars

C18_Witness ==
    /\ report = NoTrade
    /\ batches = 1
    /\ Len(bids) = 3
    /\ Len(asks) = 2
    /\ bids[1].price > bids[3].price

\* C19: after a Trade every order that is neither reported cleared nor the
\* partially filled order of its side is in the book with price and qty
\* unchanged; bids below p* and asks above p* are all kept unchanged; the
\* partially filled order stays with its price.
Frame(sorted, cleared, left, outside(_)) ==
    /\ Len(left) = Len(sorted) - Len(cleared)
    /\ \A k \in 1..Len(left) :
          /\ left[k].price = sorted[k + Len(cleared)].price
          /\ left[k].qty <= sorted[k + Len(cleared)].qty
          /\ (k > 1 \/ outside(left[k].price)) =>
                left[k] = sorted[k + Len(cleared)]
    /\ Cardinality({k \in 1..Len(sorted) : outside(sorted[k].price)})
         = Cardinality({k \in 1..Len(left) : outside(left[k].price)})

BelowReport(p) == p < report.price

AboveReport(p) == p > report.price

C19_TradeFrame ==
    IsTrade =>
        /\ Frame(sorted_bids, report.cleared_bids, bids, BelowReport)
        /\ Frame(sorted_asks, report.cleared_asks, asks, AboveReport)

C19_Witness ==
    /\ IsTrade
    /\ \E k \in 1..Len(bids) : bids[k].price < report.price
    /\ \E k \in 1..Len(asks) : asks[k].price > report.price
    /\ bids[1].qty < sorted_bids[1 + Len(report.cleared_bids)].qty

\* C20: after any batch the book is uncrossed (both sides non-empty implies
\* highest bid < lowest ask), so a batch run right after another returns
\* NoTrade and changes no order.
C20_Uncrossed ==
    /\ [](batches > 0 => ~BookCrossed(bids, asks))
    /\ [][(batches >= 1 /\ BatchStep) =>
             /\ report' = NoTrade
             /\ SameBag(bids, bids')
             /\ SameBag(asks, asks')]_vars

C20_Witness ==
    /\ batches = 2
    /\ report = NoTrade
    /\ bids # <<>>
    /\ asks # <<>>
    /\ BestAsk(asks) - BestBid(bids) = 2

\* C17: when the cumulative qty of a side leaves the range of Qty while the
\* curve is built, the batch aborts and returns no report.
C17_OverflowIsFatal ==
    (batches > 0 /\ (Overflows(sorted_bids) \/ Overflows(sorted_asks))) =>
        report = Panic

\* the list without its element at position k
RemoveAt(orders, k) ==
    SubSeq(orders, 1, k - 1) \o SubSeq(orders, k + 1, Len(orders))

CancelReceived ==
    rx # <<>> /\ rx' = Tail(rx) /\ Head(rx).command_type = "Cancel"

AfterCancel(cmd, side, side_after) ==
    LET matches == {k \in 1..Len(side) :
                       side[k].price = cmd.price /\ side[k].qty = cmd.qty}
    IN  IF matches = {} THEN side_after = side
        ELSE side_after =
               RemoveAt(side, CHOOSE k \in matches : \A m \in matches : k <= m)

\* C11: once the book updater has processed a CANCEL for (side, price, qty),
\* the earliest order of that side with that price and qty is gone from the
\* book, and when no order matches the book is unchanged.
C11_CancelRemoves ==
    [][CancelReceived =>
          IF Head(rx).order_type = "Buy"
          THEN AfterCancel(Head(rx), bids, bids') /\ asks' = asks
          ELSE AfterCancel(Head(rx), asks, asks') /\ bids' = bids]_vars

HoldsBoth == bid_lock = "tick" /\ ask_lock = "tick"

C16_TickRunsOneBatch ==
    /\ [][BatchStep => HoldsBoth]_vars
    /\ [][(ask_lock = "free" /\ ask_lock' = "tick") => bid_lock = "tick"]_vars
    /\ [][Len(tasks') > Len(tasks) =>
             (bid_lock = "free" /\ ask_lock = "free")]_vars
    /\ [](tick_pc = "wait" => Len(tasks) + Len(stdout) = batches)
    /\ [](Len(tasks) + Len(stdout) <= batches)
    /\ \A n \in 1..MaxBatches : (batches >= n) ~> (Len(stdout) >= n)
    /\ (tick_pc \in {"lock_bids", "lock_asks"}) ~> (tick_pc = "batch")

C16_Witness ==
    /\ Len(stdout) = 2
    /\ batches = 2
    /\ tasks = <<>>
    /\ tick_pc = "wait"

\* the sweep left its loop through the break
SweepBroke ==
    /\ sweep.idx_next_demand < Len(demand)
    /\ sweep.idx_next_supply < Len(supply)

\* iterations of the while loop, the one that broke included
SweepIterations == sweep.iterations + (IF SweepBroke THEN 1 ELSE 0)

\* C21: the sweep terminates: each iteration that did not stop the loop
\* advanced exactly one candidate index by one, the loop ran at most
\* |D| + |S| iterations, it ended because a candidate index reached the end
\* of its curve or the prices crossed, and the last accepted indices are
\* inside the curves, so the price lookup for p* is in bounds.
C21_SweepTerminates ==
    sweep.some =>
        /\ sweep.iterations = sweep.idx_next_demand + sweep.idx_next_supply
        /\ SweepIterations <= Len(demand) + Len(supply)
        /\ sweep.idx_next_demand <= Len(demand)
        /\ sweep.idx_next_supply <= Len(supply)
        /\ SweepBroke =>
              Crossed(demand[sweep.idx_next_demand + 1],
                      supply[sweep.idx_next_supply + 1])
        /\ sweep.idx_demand < Len(demand)
        /\ sweep.idx_supply < Len(supply)
        /\ sweep.idx_demand <= sweep.idx_next_demand
        /\ sweep.idx_supply <= sweep.idx_next_supply

C21_Witness ==
    /\ sweep.some
    /\ Len(demand) >= 2
    /\ Len(supply) >= 2
    /\ sweep.iterations + 1 = Len(demand) + Len(supply)
    /\ sweep.idx_next_demand = Len(demand)

====
